---- MODULE Spec2Model ----
(***************************************************************************)
(* Model of pkg/kubebench/scanner.go: Scanner.Scan runs a kube-bench Job,  *)
(* locates its Pod, reads and parses the Pod's logs, resolves the Node and *)
(* deletes the Job in a deferred function.  Several invocations of Scan    *)
(* run against one cluster.  Every cluster call is one step; the functions *)
(* deferred by Scan run in LIFO order when Scan returns.                   *)
(***************************************************************************)
EXTENDS Integers, Sequences, FiniteSets, TLC

\* ---------------------------------------------------------------- bounds
MaxPods == 2
MaxTimeout == 1

\* ------------------------------------------------------------- constants
Procs == {"scan-a", "scan-b"}
UUIDs == {"uuid-1", "uuid-2"}
NodeNames == {"node-1"}
NamespaceStarboard == "starboard"
kubeBenchContainerName == "kube-bench"

\* stage prefixes of the fmt.Errorf calls
RunStage == "running kube-bench job"
PodStage == "getting kube-bench pod"
LogsStage == "getting logs"
ParseStage == "parsing CIS benchmark report"

\* root causes reported by the collaborators
ErrSubmit == "job rejected"
ErrJobFailed == "job failed"
ErrCanceled == "context canceled"
ErrNotFound == "pod not found"
ErrAmbiguous == "more than one pod"
ErrStreamOpen == "cannot open log stream"
ErrDecoding == "malformed report"
ErrNodeNotFound == "node not found"

\* An error value is the chain of its messages, outermost first; nil is the
\* empty chain.
Nil == <<>>
NewError(msg) == <<msg>>
\* fmt.Errorf("<stage>: %w", e)
Wrap(stage, e) == <<stage>> \o e
\* errors.Unwrap
Unwrap(e) == IF Len(e) > 1 THEN Tail(e) ELSE Nil

\* ------------------------------------------------------------ data model
\* A pointer is a sequence of at most one element.
NilPtr == <<>>
Ptr(v) == <<v>>

\* scanners.Base.GetActiveDeadlineSeconds: no deadline without a timeout
GetActiveDeadlineSeconds(d) == IF d > 0 THEN Ptr(d) ELSE NilPtr

\* prepareKubeBenchJob with ActiveDeadlineSeconds left out of the JobSpec
prepareKubeBenchJob_NoDeadline(u, timeout) ==
    [ name |-> u,
      namespace |-> NamespaceStarboard,
      backoffLimit |-> Ptr(0),
      completions |-> Ptr(1),
      activeDeadlineSeconds |-> NilPtr,
      restartPolicy |-> "Never" ]

\* prepareKubeBenchJob with a retry budget of one
prepareKubeBenchJob_Retry(u, timeout) ==
    [ name |-> u,
      namespace |-> NamespaceStarboard,
      backoffLimit |-> Ptr(1),
      completions |-> Ptr(1),
      activeDeadlineSeconds |-> GetActiveDeadlineSeconds(timeout),
      restartPolicy |-> "Never" ]

prepareKubeBenchJob(u, timeout) ==
    [ name |-> u,
      namespace |-> NamespaceStarboard,
      backoffLimit |-> Ptr(0),
      completions |-> Ptr(1),
      activeDeadlineSeconds |-> GetActiveDeadlineSeconds(timeout),
      restartPolicy |-> "Never" ]

NoJob ==
    [ name |-> "", namespace |-> "", backoffLimit |-> NilPtr,
      completions |-> NilPtr, activeDeadlineSeconds |-> NilPtr,
      restartPolicy |-> "" ]

\* What the cluster keeps of a Job: the submitted descriptor, how many times
\* a pod of the job was started and how many of them failed.
NoStored == [ spec |-> NoJob, starts |-> 0, fails |-> 0 ]
Admitted(job) == [ spec |-> job, starts |-> 1, fails |-> 0 ]
\* the Job controller's reading of the JobSpec: a nil backoffLimit is 6, a
\* nil completions is 1
BackoffLimitOf(job) == IF job.backoffLimit = NilPtr THEN 6 ELSE job.backoffLimit[1]
CompletionsOf(job) == IF job.completions = NilPtr THEN 1 ELSE job.completions[1]

\* Pods as the cluster lists them; nodeName is "" until the pod is scheduled.
Pods == [ owner : UUIDs, nodeName : NodeNames \cup {""} ]
NoPod == [ owner |-> "", nodeName |-> "" ]

RECURSIVE SeqsUpTo(_, _)
SeqsUpTo(S, n) ==
    IF n = 0 THEN { <<>> }
    ELSE LET shorter == SeqsUpTo(S, n - 1)
         IN  shorter \cup { Append(s, x) : s \in { t \in shorter : Len(t) = n - 1 }, x \in S }

\* What the cluster can answer to a list of the pods of job u once the job
\* has completed: the only pod left of a completed job is the one that ran,
\* so it has a node.
PodLists(u) ==
    { l \in SeqsUpTo({ p \in Pods : p.owner = u }, MaxPods) :
        Len(l) = 1 => l[1].nodeName # "" }

\* pod.Manager.GetPodByJob: exactly one pod, or an error
GetPodByJob(podList) ==
    IF Len(podList) = 0 THEN [ pod |-> NoPod, err |-> NewError(ErrNotFound) ]
    ELSE IF Len(podList) > 1 THEN [ pod |-> NoPod, err |-> NewError(ErrAmbiguous) ]
    ELSE [ pod |-> podList[1], err |-> Nil ]

PodCount(podList) ==
    IF Len(podList) = 0 THEN "none" ELSE IF Len(podList) = 1 THEN "one" ELSE "many"

\* The container's output: one token per test result, BAD for bytes that
\* are not part of a well-formed report.
LogStreams == { <<"PASS">>, <<"PASS", "FAIL">>, <<"BAD">>, <<"PASS", "BAD">> }

RECURSIVE Count(_, _)
Count(s, x) ==
    IF s = <<>> THEN 0
    ELSE (IF Head(s) = x THEN 1 ELSE 0) + Count(Tail(s), x)

\* zero value of starboard.CISKubeBenchOutput
EmptyReport == [ pass |-> 0, fail |-> 0 ]

\* Converter.Convert: the decoded report, or a decoding error and no report
Convert(stream) ==
    IF Count(stream, "BAD") > 0
    THEN [ report |-> EmptyReport, err |-> NewError(ErrDecoding) ]
    ELSE [ report |-> [ pass |-> Count(stream, "PASS"), fail |-> Count(stream, "FAIL") ],
           err |-> Nil ]

\* *core.Node results
NilNode == [ name |-> "<nil>" ]
NodeMetadata(n) == [ name |-> n ]

\* ----------------------------------------------------------------- state
VARIABLES
    opts,          \* Scanner.opts.ScanJobTimeout, in seconds
    jobs,          \* the cluster: job name -> absent | active | succeeded | failed
    stored,        \* the cluster: the Job object kept under each name, and its pod starts
    pc,            \* position of each invocation of Scan
    ctxDone,       \* whether the invocation's ctx is cancelled
    kubeBenchJob,  \* local kubeBenchJob
    kubeBenchPod,  \* local kubeBenchPod
    logsReader,    \* local logsReader: nil | open | closed
    logs,          \* what the open stream carries
    deferred,      \* the invocation's stack of deferred functions, top first
    report,        \* named result report
    node,          \* named result node
    err,           \* named result err
    calls          \* the calls the invocation has issued: <<op, arg, result>>

vars == << opts, jobs, stored, pc, ctxDone, kubeBenchJob, kubeBenchPod, logsReader, logs,
           deferred, report, node, err, calls >>

locals == << kubeBenchPod, logsReader, logs >>
results == << report, node, err >>

Init ==
    /\ opts \in 0..MaxTimeout
    /\ jobs = [ u \in UUIDs |-> "absent" ]
    /\ stored = [ u \in UUIDs |-> NoStored ]
    /\ pc = [ i \in Procs |-> "idle" ]
    /\ ctxDone = [ i \in Procs |-> FALSE ]
    /\ kubeBenchJob = [ i \in Procs |-> NoJob ]
    /\ kubeBenchPod = [ i \in Procs |-> NoPod ]
    /\ logsReader = [ i \in Procs |-> "nil" ]
    /\ logs = [ i \in Procs |-> <<>> ]
    /\ deferred = [ i \in Procs |-> <<>> ]
    /\ report = [ i \in Procs |-> EmptyReport ]
    /\ node = [ i \in Procs |-> NilNode ]
    /\ err = [ i \in Procs |-> Nil ]
    /\ calls = [ i \in Procs |-> <<>> ]

\* a return statement: the deferred functions run before Scan is done
ReturnPc(stack) == IF stack = <<>> THEN "done" ELSE "deferred"

Issue(i, op, arg, res) == calls' = [ calls EXCEPT ![i] = Append(@, << op, arg, res >>) ]

\* RunReturned without the deferred delete
RunReturned_NoDefer(i, e) ==
    IF e # Nil
    THEN /\ err' = [ err EXCEPT ![i] = Wrap(RunStage, e) ]
         /\ pc' = [ pc EXCEPT ![i] = ReturnPc(deferred[i]) ]
         /\ UNCHANGED deferred
    ELSE /\ err' = [ err EXCEPT ![i] = Nil ]
         /\ UNCHANGED deferred
         /\ pc' = [ pc EXCEPT ![i] = "getPod" ]

\* RunReturned with the delete deferred before the error of runner.Run is
\* checked
RunReturned_DeferBeforeCheck(i, e) ==
    /\ deferred' = [ deferred EXCEPT ![i] = << "deleteJob" >> \o @ ]
    /\ IF e # Nil
       THEN /\ err' = [ err EXCEPT ![i] = Wrap(RunStage, e) ]
            /\ pc' = [ pc EXCEPT ![i] = "deferred" ]
       ELSE /\ err' = [ err EXCEPT ![i] = Nil ]
            /\ pc' = [ pc EXCEPT ![i] = "getPod" ]

\* Lines 53-65: the result of runner.Run is checked, and only a nil result
\* registers the deferred delete of the job.
RunReturned(i, e) ==
    IF e # Nil
    THEN /\ err' = [ err EXCEPT ![i] = Wrap(RunStage, e) ]
         /\ pc' = [ pc EXCEPT ![i] = ReturnPc(deferred[i]) ]
         /\ UNCHANGED deferred
    ELSE /\ err' = [ err EXCEPT ![i] = Nil ]
         /\ deferred' = [ deferred EXCEPT ![i] = << "deleteJob" >> \o @ ]
         /\ pc' = [ pc EXCEPT ![i] = "getPod" ]

\* Scan is called: the job is prepared and runner.Run submits it.  The
\* create is accepted, rejected, or rejected after the job was created.
ScanStart(i) ==
    /\ pc[i] = "idle"
    /\ \E u \in UUIDs, c \in BOOLEAN, outcome \in { "created", "rejected", "partial" } :
        /\ jobs[u] # "absent" => outcome = "rejected"
        /\ ctxDone' = [ ctxDone EXCEPT ![i] = c ]
        /\ kubeBenchJob' = [ kubeBenchJob EXCEPT ![i] = prepareKubeBenchJob(u, opts) ]
        /\ Issue(i, "Create", u, outcome)
        /\ jobs' = IF outcome = "rejected" THEN jobs ELSE [ jobs EXCEPT ![u] = "active" ]
        /\ stored' = IF outcome = "rejected" THEN stored
                     ELSE [ stored EXCEPT ![u] = Admitted(prepareKubeBenchJob(u, opts)) ]
        /\ IF outcome = "created"
           THEN /\ pc' = [ pc EXCEPT ![i] = "wait" ]
                /\ UNCHANGED << err, deferred >>
           ELSE RunReturned(i, NewError(IF c THEN ErrCanceled ELSE ErrSubmit))
    /\ UNCHANGED << opts, locals, report, node >>

\* the caller cancels ctx while runner.Run waits
Cancel(i) ==
    /\ pc[i] = "wait"
    /\ ~ctxDone[i]
    /\ ctxDone' = [ ctxDone EXCEPT ![i] = TRUE ]
    /\ UNCHANGED << opts, stored, jobs, pc, kubeBenchJob, locals, deferred, results, calls >>

\* A pod of the job ends.  The Job controller starts another pod while the
\* completions are not reached or the retry budget is not used up; otherwise
\* the job is succeeded or failed, for good.
JobFinishes(u) ==
    /\ jobs[u] = "active"
    /\ LET o == stored[u] IN
       \/ IF o.starts - o.fails >= CompletionsOf(o.spec)
          THEN /\ jobs' = [ jobs EXCEPT ![u] = "succeeded" ]
               /\ UNCHANGED stored
          ELSE /\ stored' = [ stored EXCEPT ![u].starts = @ + 1 ]
               /\ UNCHANGED jobs
       \/ IF o.fails + 1 > BackoffLimitOf(o.spec)
          THEN /\ jobs' = [ jobs EXCEPT ![u] = "failed" ]
               /\ stored' = [ stored EXCEPT ![u].fails = @ + 1 ]
          ELSE /\ stored' = [ stored EXCEPT ![u].fails = @ + 1, ![u].starts = @ + 1 ]
               /\ UNCHANGED jobs
    /\ UNCHANGED << opts, pc, ctxDone, kubeBenchJob, locals, deferred, results, calls >>

\* runner.Run returns: the job is terminal or ctx is cancelled
ScanRunReturns(i) ==
    /\ pc[i] = "wait"
    /\ LET u == kubeBenchJob[i].name IN
       \E outcome \in { "succeeded", "failed", "cancelled" } :
        /\ outcome = "cancelled" => ctxDone[i]
        /\ outcome # "cancelled" => jobs[u] = outcome
        /\ Issue(i, "Wait", u, outcome)
        /\ RunReturned(i, CASE outcome = "succeeded" -> Nil
                            [] outcome = "failed" -> NewError(ErrJobFailed)
                            [] outcome = "cancelled" -> NewError(ErrCanceled))
    /\ UNCHANGED << opts, stored, jobs, ctxDone, kubeBenchJob, locals, report, node >>

\* ScanGetPod with the error of GetPodByJob discarded
ScanGetPod_NoErrCheck(i) ==
    /\ pc[i] = "getPod"
    /\ \E podList \in PodLists(kubeBenchJob[i].name) :
        LET r == GetPodByJob(podList) IN
        /\ Issue(i, "GetPodByJob", kubeBenchJob[i].name, PodCount(podList))
        /\ kubeBenchPod' = [ kubeBenchPod EXCEPT ![i] = r.pod ]
        /\ err' = [ err EXCEPT ![i] = Nil ]
        /\ pc' = [ pc EXCEPT ![i] = "getLogs" ]
    /\ UNCHANGED << opts, stored, jobs, ctxDone, kubeBenchJob, logsReader, logs, deferred, report, node >>

\* ScanGetPod with the return missing after the error is wrapped
ScanGetPod_NoReturn(i) ==
    /\ pc[i] = "getPod"
    /\ \E podList \in PodLists(kubeBenchJob[i].name) :
        LET r == GetPodByJob(podList) IN
        /\ Issue(i, "GetPodByJob", kubeBenchJob[i].name, PodCount(podList))
        /\ kubeBenchPod' = [ kubeBenchPod EXCEPT ![i] = r.pod ]
        /\ err' = [ err EXCEPT ![i] = IF r.err # Nil THEN Wrap(PodStage, r.err) ELSE Nil ]
        /\ pc' = [ pc EXCEPT ![i] = "getLogs" ]
    /\ UNCHANGED << opts, stored, jobs, ctxDone, kubeBenchJob, logsReader, logs, deferred, report, node >>

\* Lines 67-72
ScanGetPod(i) ==
    /\ pc[i] = "getPod"
    /\ \E podList \in PodLists(kubeBenchJob[i].name) :
        LET r == GetPodByJob(podList) IN
        /\ Issue(i, "GetPodByJob", kubeBenchJob[i].name, PodCount(podList))
        /\ kubeBenchPod' = [ kubeBenchPod EXCEPT ![i] = r.pod ]
        /\ IF r.err # Nil
           THEN /\ err' = [ err EXCEPT ![i] = Wrap(PodStage, r.err) ]
                /\ pc' = [ pc EXCEPT ![i] = ReturnPc(deferred[i]) ]
           ELSE /\ err' = [ err EXCEPT ![i] = Nil ]
                /\ pc' = [ pc EXCEPT ![i] = "getLogs" ]
    /\ UNCHANGED << opts, stored, jobs, ctxDone, kubeBenchJob, logsReader, logs, deferred, report, node >>

\* ScanGetPodLogs without the deferred Close
ScanGetPodLogs_NoDeferClose(i) ==
    /\ pc[i] = "getLogs"
    /\ \/ \E stream \in LogStreams :
            /\ Issue(i, "GetPodLogs", kubeBenchPod[i].owner, "ok")
            /\ logsReader' = [ logsReader EXCEPT ![i] = "open" ]
            /\ logs' = [ logs EXCEPT ![i] = stream ]
            /\ err' = [ err EXCEPT ![i] = Nil ]
            /\ UNCHANGED deferred
            /\ pc' = [ pc EXCEPT ![i] = "convert" ]
       \/   /\ Issue(i, "GetPodLogs", kubeBenchPod[i].owner, "error")
            /\ err' = [ err EXCEPT ![i] = Wrap(LogsStage, NewError(ErrStreamOpen)) ]
            /\ pc' = [ pc EXCEPT ![i] = ReturnPc(deferred[i]) ]
            /\ UNCHANGED << logsReader, logs, deferred >>
    /\ UNCHANGED << opts, stored, jobs, ctxDone, kubeBenchJob, kubeBenchPod, report, node >>

\* ScanGetPodLogs with the return missing after the error is wrapped
ScanGetPodLogs_NoReturn(i) ==
    /\ pc[i] = "getLogs"
    /\ \/ \E stream \in LogStreams :
            /\ Issue(i, "GetPodLogs", kubeBenchPod[i].owner, "ok")
            /\ logsReader' = [ logsReader EXCEPT ![i] = "open" ]
            /\ logs' = [ logs EXCEPT ![i] = stream ]
            /\ err' = [ err EXCEPT ![i] = Nil ]
            /\ deferred' = [ deferred EXCEPT ![i] = << "closeLogs" >> \o @ ]
            /\ pc' = [ pc EXCEPT ![i] = "convert" ]
       \/   /\ Issue(i, "GetPodLogs", kubeBenchPod[i].owner, "error")
            /\ err' = [ err EXCEPT ![i] = Wrap(LogsStage, NewError(ErrStreamOpen)) ]
            /\ deferred' = [ deferred EXCEPT ![i] = << "closeLogs" >> \o @ ]
            /\ pc' = [ pc EXCEPT ![i] = "convert" ]
            /\ UNCHANGED << logsReader, logs >>
    /\ UNCHANGED << opts, stored, jobs, ctxDone, kubeBenchJob, kubeBenchPod, report, node >>

\* Lines 74-84
ScanGetPodLogs(i) ==
    /\ pc[i] = "getLogs"
    /\ \/ \E stream \in LogStreams :
            /\ Issue(i, "GetPodLogs", kubeBenchPod[i].owner, "ok")
            /\ logsReader' = [ logsReader EXCEPT ![i] = "open" ]
            /\ logs' = [ logs EXCEPT ![i] = stream ]
            /\ err' = [ err EXCEPT ![i] = Nil ]
            /\ deferred' = [ deferred EXCEPT ![i] = << "closeLogs" >> \o @ ]
            /\ pc' = [ pc EXCEPT ![i] = "convert" ]
       \/   /\ Issue(i, "GetPodLogs", kubeBenchPod[i].owner, "error")
            /\ err' = [ err EXCEPT ![i] = Wrap(LogsStage, NewError(ErrStreamOpen)) ]
            /\ pc' = [ pc EXCEPT ![i] = ReturnPc(deferred[i]) ]
            /\ UNCHANGED << logsReader, logs, deferred >>
    /\ UNCHANGED << opts, stored, jobs, ctxDone, kubeBenchJob, kubeBenchPod, report, node >>

\* ScanConvert with the return missing after the error is wrapped
ScanConvert_NoReturn(i) ==
    /\ pc[i] = "convert"
    /\ LET r == Convert(logs[i]) IN
        /\ Issue(i, "Convert", kubeBenchPod[i].owner, IF r.err = Nil THEN "ok" ELSE "error")
        /\ report' = [ report EXCEPT ![i] = r.report ]
        /\ err' = [ err EXCEPT ![i] = IF r.err # Nil THEN Wrap(ParseStage, r.err) ELSE Nil ]
        /\ pc' = [ pc EXCEPT ![i] = "getNode" ]
    /\ UNCHANGED << opts, stored, jobs, ctxDone, kubeBenchJob, locals, deferred, node >>

\* Lines 86-91
ScanConvert(i) ==
    /\ pc[i] = "convert"
    /\ LET r == Convert(logs[i]) IN
        /\ Issue(i, "Convert", kubeBenchPod[i].owner, IF r.err = Nil THEN "ok" ELSE "error")
        /\ report' = [ report EXCEPT ![i] = r.report ]
        /\ IF r.err # Nil
           THEN /\ err' = [ err EXCEPT ![i] = Wrap(ParseStage, r.err) ]
                /\ pc' = [ pc EXCEPT ![i] = ReturnPc(deferred[i]) ]
           ELSE /\ err' = [ err EXCEPT ![i] = Nil ]
                /\ pc' = [ pc EXCEPT ![i] = "getNode" ]
    /\ UNCHANGED << opts, stored, jobs, ctxDone, kubeBenchJob, locals, deferred, node >>

\* ScanGetNode with the error of Nodes().Get discarded
ScanGetNode_IgnoresErr(i) ==
    /\ pc[i] = "getNode"
    /\ LET n == kubeBenchPod[i].nodeName IN
       \/   /\ Issue(i, "GetNode", n, "ok")
            /\ node' = [ node EXCEPT ![i] = NodeMetadata(n) ]
            /\ err' = [ err EXCEPT ![i] = Nil ]
       \/ \E nd \in { NilNode, NodeMetadata("") } :
            /\ Issue(i, "GetNode", n, "error")
            /\ node' = [ node EXCEPT ![i] = nd ]
            /\ err' = [ err EXCEPT ![i] = Nil ]
    /\ pc' = [ pc EXCEPT ![i] = ReturnPc(deferred[i]) ]
    /\ UNCHANGED << opts, stored, jobs, ctxDone, kubeBenchJob, locals, deferred, report >>

\* Lines 93-94: the result of Nodes().Get is returned as it is.  On an error
\* the client returns a nil node or an empty one.
ScanGetNode(i) ==
    /\ pc[i] = "getNode"
    /\ LET n == kubeBenchPod[i].nodeName IN
       \/   /\ Issue(i, "GetNode", n, "ok")
            /\ node' = [ node EXCEPT ![i] = NodeMetadata(n) ]
            /\ err' = [ err EXCEPT ![i] = Nil ]
       \/ \E nd \in { NilNode, NodeMetadata("") } :
            /\ Issue(i, "GetNode", n, "error")
            /\ node' = [ node EXCEPT ![i] = nd ]
            /\ err' = [ err EXCEPT ![i] = NewError(ErrNodeNotFound) ]
    /\ pc' = [ pc EXCEPT ![i] = ReturnPc(deferred[i]) ]
    /\ UNCHANGED << opts, stored, jobs, ctxDone, kubeBenchJob, locals, deferred, report >>

\* Lines 82-84: the deferred logsReader.Close()
DeferredClose(i) ==
    /\ pc[i] = "deferred"
    /\ Head(deferred[i]) = "closeLogs"
    /\ Issue(i, "Close", kubeBenchPod[i].owner, "ok")
    /\ logsReader' = [ logsReader EXCEPT ![i] = "closed" ]
    /\ deferred' = [ deferred EXCEPT ![i] = Tail(@) ]
    /\ pc' = [ pc EXCEPT ![i] = ReturnPc(Tail(deferred[i])) ]
    /\ UNCHANGED << opts, stored, jobs, ctxDone, kubeBenchJob, kubeBenchPod, logs, results >>

\* DeferredDelete with the error of the delete assigned to the result err
DeferredDelete_ReturnsErr(i) ==
    /\ pc[i] = "deferred"
    /\ Head(deferred[i]) = "deleteJob"
    /\ \E ok \in BOOLEAN :
        /\ Issue(i, "Delete", kubeBenchJob[i].name, IF ok THEN "ok" ELSE "error")
        /\ jobs' = IF ok THEN [ jobs EXCEPT ![kubeBenchJob[i].name] = "absent" ] ELSE jobs
        /\ stored' = IF ok THEN [ stored EXCEPT ![kubeBenchJob[i].name] = NoStored ] ELSE stored
        /\ err' = [ err EXCEPT ![i] = IF ok THEN @ ELSE NewError("delete failed") ]
    /\ deferred' = [ deferred EXCEPT ![i] = Tail(@) ]
    /\ pc' = [ pc EXCEPT ![i] = ReturnPc(Tail(deferred[i])) ]
    /\ UNCHANGED << opts, ctxDone, kubeBenchJob, locals, report, node >>

\* DeferredDelete not deferred to the return of Scan: the delete may also be
\* issued while runner.Run still waits
DeferredDelete_Early(i) ==
    \/  /\ pc[i] = "wait"
        /\ \A k \in 1..Len(calls[i]) : calls[i][k][1] # "Delete"
        /\ \E ok \in BOOLEAN :
            /\ Issue(i, "Delete", kubeBenchJob[i].name, IF ok THEN "ok" ELSE "error")
            /\ jobs' = IF ok THEN [ jobs EXCEPT ![kubeBenchJob[i].name] = "absent" ] ELSE jobs
            /\ stored' = IF ok THEN [ stored EXCEPT ![kubeBenchJob[i].name] = NoStored ] ELSE stored
        /\ UNCHANGED << opts, pc, deferred, ctxDone, kubeBenchJob, locals, results >>
    \/  /\ pc[i] = "deferred"
        /\ Head(deferred[i]) = "deleteJob"
        /\ \E ok \in BOOLEAN :
            /\ Issue(i, "Delete", kubeBenchJob[i].name, IF ok THEN "ok" ELSE "error")
            /\ jobs' = IF ok THEN [ jobs EXCEPT ![kubeBenchJob[i].name] = "absent" ] ELSE jobs
            /\ stored' = IF ok THEN [ stored EXCEPT ![kubeBenchJob[i].name] = NoStored ] ELSE stored
        /\ deferred' = [ deferred EXCEPT ![i] = Tail(@) ]
        /\ pc' = [ pc EXCEPT ![i] = ReturnPc(Tail(deferred[i])) ]
        /\ UNCHANGED << opts, ctxDone, kubeBenchJob, locals, results >>

\* DeferredDelete deleting by the label app=kube-bench instead of by name
DeferredDelete_ByLabel(i) ==
    /\ pc[i] = "deferred"
    /\ Head(deferred[i]) = "deleteJob"
    /\ \E ok \in BOOLEAN :
        /\ Issue(i, "Delete", kubeBenchJob[i].name, IF ok THEN "ok" ELSE "error")
        /\ jobs' = IF ok THEN [ u \in UUIDs |-> "absent" ] ELSE jobs
        /\ stored' = IF ok THEN [ u \in UUIDs |-> NoStored ] ELSE stored
    /\ deferred' = [ deferred EXCEPT ![i] = Tail(@) ]
    /\ pc' = [ pc EXCEPT ![i] = ReturnPc(Tail(deferred[i])) ]
    /\ UNCHANGED << opts, ctxDone, kubeBenchJob, locals, results >>

\* Lines 58-65: the deferred delete of the job; its error is discarded
DeferredDelete(i) ==
    /\ pc[i] = "deferred"
    /\ Head(deferred[i]) = "deleteJob"
    /\ \E ok \in BOOLEAN :
        /\ Issue(i, "Delete", kubeBenchJob[i].name, IF ok THEN "ok" ELSE "error")
        /\ jobs' = IF ok THEN [ jobs EXCEPT ![kubeBenchJob[i].name] = "absent" ] ELSE jobs
        /\ stored' = IF ok THEN [ stored EXCEPT ![kubeBenchJob[i].name] = NoStored ] ELSE stored
    /\ deferred' = [ deferred EXCEPT ![i] = Tail(@) ]
    /\ pc' = [ pc EXCEPT ![i] = ReturnPc(Tail(deferred[i])) ]
    /\ UNCHANGED << opts, ctxDone, kubeBenchJob, locals, results >>

Next ==
    \/ \E i \in Procs : ScanStart(i)
    \/ \E i \in Procs : Cancel(i)
    \/ \E u \in UUIDs : JobFinishes(u)
    \/ \E i \in Procs : ScanRunReturns(i)
    \/ \E i \in Procs : ScanGetPod(i)
    \/ \E i \in Procs : ScanGetPodLogs(i)
    \/ \E i \in Procs : ScanConvert(i)
    \/ \E i \in Procs : ScanGetNode(i)
    \/ \E i \in Procs : DeferredClose(i)
    \/ \E i \in Procs : DeferredDelete(i)

Spec == Init /\ [][Next]_vars

\* ----------------------------------------------------------- properties
\* positions in calls[i] of the calls of one operation
Ops(i, op) == { k \in 1..Len(calls[i]) : calls[i][k][1] = op }
NumCalls(i, op) == Cardinality(Ops(i, op))
Called(i, op, res) == \E k \in Ops(i, op) : calls[i][k][3] = res
Stages == { RunStage, PodStage, LogsStage, ParseStage }
\* the job of invocation i was accepted by the cluster
Submitted(i) == Called(i, "Create", "created")

\* C1: every invocation whose job was submitted has issued exactly one
\* delete of it when Scan has returned, whatever the exit path.
C1_ExactlyOneDeleteOnEveryExit ==
    \A i \in Procs :
        (pc[i] = "done" /\ Submitted(i)) => NumCalls(i, "Delete") = 1

\* C2: when ctx is cancelled and the job had been submitted, Scan returns a
\* cancellation error and a delete of the job has been issued.
C2_CancelledStillDeletes ==
    \A i \in Procs :
        (pc[i] = "done" /\ Submitted(i) /\ Called(i, "Wait", "cancelled")) =>
            /\ err[i] # Nil
            /\ err[i][Len(err[i])] = ErrCanceled
            /\ NumCalls(i, "Delete") >= 1

\* C3: when the submission fails, possibly after the job was created, a
\* delete of the job identity has been attempted when Scan has returned.
C3_SubmissionFailureStillDeletes ==
    \A i \in Procs :
        (pc[i] = "done" /\ (Called(i, "Create", "rejected") \/ Called(i, "Create", "partial"))) =>
            \E k \in Ops(i, "Delete") : calls[i][k][2] = kubeBenchJob[i].name

\* C4: the step that issues the delete, whether the delete succeeds or
\* fails, leaves report, node and err as they were and is the last step of
\* Scan.
C4_DeleteNeverChangesResult ==
    [][ \A i \in Procs :
          NumCalls(i, "Delete")' > NumCalls(i, "Delete") =>
              /\ report'[i] = report[i]
              /\ node'[i] = node[i]
              /\ err'[i] = err[i]
              /\ pc'[i] = "done" ]_vars

C4_Witness ==
    \E i \in Procs :
        /\ pc[i] = "done"
        /\ Called(i, "Delete", "error")
        /\ err[i] = Nil
        /\ report[i] # EmptyReport

\* C5: when the locator finds no pod, err is the wrapped not-found error and
\* neither the log stream is opened, nor the converter run, nor the node
\* looked up.
C5_ZeroPodsNotFound ==
    \A i \in Procs :
        Called(i, "GetPodByJob", "none") =>
            /\ err[i] = Wrap(PodStage, NewError(ErrNotFound))
            /\ NumCalls(i, "GetPodLogs") = 0
            /\ NumCalls(i, "Convert") = 0
            /\ NumCalls(i, "GetNode") = 0

C5_Witness ==
    \E i \in Procs :
        /\ pc[i] = "done"
        /\ Called(i, "GetPodByJob", "none")
        /\ err[i] = Wrap(PodStage, NewError(ErrNotFound))

\* C6: when the locator finds more than one pod, err is the wrapped
\* ambiguity error, no pod is kept and no log stream is opened.
C6_ManyPodsAmbiguous ==
    \A i \in Procs :
        Called(i, "GetPodByJob", "many") =>
            /\ err[i] = Wrap(PodStage, NewError(ErrAmbiguous))
            /\ kubeBenchPod[i] = NoPod
            /\ NumCalls(i, "GetPodLogs") = 0

C6_Witness ==
    \E i \in Procs :
        /\ pc[i] = "done"
        /\ Called(i, "GetPodByJob", "many")
        /\ err[i] = Wrap(PodStage, NewError(ErrAmbiguous))

\* every stage of invocation i succeeded
SuccessPath(i) ==
    /\ Called(i, "Wait", "succeeded")
    /\ Called(i, "GetPodByJob", "one")
    /\ Called(i, "GetPodLogs", "ok")
    /\ Called(i, "Convert", "ok")
    /\ Called(i, "GetNode", "ok")

\* C7: on the success path Scan returns the report decoded from the stream,
\* the metadata of the pod's node and no error, and exactly one delete was
\* issued, for the job name that was submitted.
C7_SuccessPath ==
    \A i \in Procs :
        (pc[i] = "done" /\ SuccessPath(i)) =>
            /\ report[i] = [ pass |-> Count(logs[i], "PASS"), fail |-> Count(logs[i], "FAIL") ]
            /\ kubeBenchPod[i].nodeName \in NodeNames
            /\ node[i] = NodeMetadata(kubeBenchPod[i].nodeName)
            /\ err[i] = Nil
            /\ NumCalls(i, "Delete") = 1
            /\ \A k \in Ops(i, "Delete") : calls[i][k][2] = calls[i][1][2]

C7_Witness ==
    \E i \in Procs :
        /\ pc[i] = "done"
        /\ SuccessPath(i)
        /\ report[i] = [ pass |-> 1, fail |-> 0 ]
        /\ node[i] = NodeMetadata("node-1")

\* C8: a log stream that was opened is closed exactly once when Scan has
\* returned, it is never closed twice, and no stream is open after Scan has
\* returned.
C8_StreamClosedOnce ==
    \A i \in Procs :
        /\ NumCalls(i, "Close") <= 1
        /\ NumCalls(i, "Close") = 1 => Called(i, "GetPodLogs", "ok")
        /\ pc[i] = "done" => logsReader[i] # "open"
        /\ (pc[i] = "done" /\ Called(i, "GetPodLogs", "ok")) =>
               (NumCalls(i, "Close") = 1 /\ logsReader[i] = "closed")

C8_Witness ==
    \E i \in Procs :
        /\ pc[i] = "done"
        /\ Called(i, "Convert", "error")
        /\ logsReader[i] = "closed"
        /\ \E j \in Procs :
            /\ pc[j] = "done"
            /\ Called(j, "GetNode", "error")
            /\ logsReader[j] = "closed"

\* C9: when the converter fails, err is not nil, the report is the empty
\* report and the node is not looked up.
C9_DecodeFailureNoReport ==
    \A i \in Procs :
        Called(i, "Convert", "error") =>
            /\ err[i] # Nil
            /\ report[i] = EmptyReport
            /\ NumCalls(i, "GetNode") = 0

C9_Witness ==
    \E i \in Procs :
        /\ pc[i] = "done"
        /\ Called(i, "Convert", "error")
        /\ logs[i] = << "PASS", "BAD" >>
        /\ err[i] = Wrap(ParseStage, NewError(ErrDecoding))

\* C10: every error Scan returns is wrapped with the name of a stage, its
\* cause kept below, and a delete was attempted before it is returned.
C10_ErrorsWrappedAfterCleanup ==
    \A i \in Procs :
        (pc[i] = "done" /\ err[i] # Nil) =>
            /\ Len(err[i]) >= 2
            /\ err[i][1] \in Stages \cup { "getting node" }
            /\ NumCalls(i, "Delete") >= 1

\* C11: when the node lookup fails after the report was decoded, Scan
\* returns an error; a return without error always carries the metadata of
\* a node.
C11_NodeLookupFailureIsHard ==
    \A i \in Procs :
        /\ Called(i, "GetNode", "error") =>
               (err[i] # Nil /\ Called(i, "Convert", "ok"))
        /\ (pc[i] = "done" /\ err[i] = Nil) =>
               (\E n \in NodeNames : node[i] = NodeMetadata(n))

C11_Witness ==
    \E i \in Procs :
        /\ pc[i] = "done"
        /\ Called(i, "GetNode", "error")
        /\ report[i] # EmptyReport
        /\ err[i] = NewError(ErrNodeNotFound)

\* C13: the job built for a configured timeout of T seconds has its
\* active deadline equal to T when T > 0 and unset when T = 0.
C13_DeadlineFollowsTimeout ==
    \A i \in Procs :
        kubeBenchJob[i] # NoJob =>
            /\ opts > 0 => kubeBenchJob[i].activeDeadlineSeconds = << opts >>
            /\ opts = 0 => kubeBenchJob[i].activeDeadlineSeconds = << >>

C13_Witness ==
    \E i, j \in Procs :
        /\ kubeBenchJob[i] # NoJob
        /\ opts > 0
        /\ kubeBenchJob[i].activeDeadlineSeconds = << opts >>
        /\ kubeBenchJob[j] # NoJob

\* C14: no delete is issued while runner.Run still waits; every delete
\* comes after the wait has returned with succeeded, failed or cancelled.
C14_NoDeleteBeforeRunReturns ==
    \A i \in Procs :
        /\ pc[i] \in { "idle", "wait" } => NumCalls(i, "Delete") = 0
        /\ \A k \in Ops(i, "Delete") :
               \E w \in Ops(i, "Wait") :
                   /\ w < k
                   /\ calls[i][w][3] \in { "succeeded", "failed", "cancelled" }

C14_Witness ==
    \E i, j \in Procs :
        /\ pc[i] = "wait"
        /\ jobs[kubeBenchJob[i].name] = "active"
        /\ pc[j] = "done"
        /\ Called(j, "Delete", "ok")

\* the stage a call belongs to, in the order of the pipeline
StageRank(op) ==
    CASE op \in { "Create", "Wait" } -> 1
      [] op = "GetPodByJob" -> 2
      [] op = "GetPodLogs" -> 3
      [] op = "Convert" -> 4
      [] op = "GetNode" -> 5
      [] OTHER -> 0
StageCalls(i) == { k \in 1..Len(calls[i]) : StageRank(calls[i][k][1]) > 0 }
Succeeded(c) == c[3] \in { "created", "succeeded", "one", "ok" }
\* the causes a failed stage call reports
CausesOf(c) ==
    CASE c[1] = "Create" -> { ErrSubmit, ErrCanceled }
      [] c[1] = "Wait" /\ c[3] = "failed" -> { ErrJobFailed }
      [] c[1] = "Wait" /\ c[3] = "cancelled" -> { ErrCanceled }
      [] c[1] = "GetPodByJob" /\ c[3] = "none" -> { ErrNotFound }
      [] c[1] = "GetPodByJob" /\ c[3] = "many" -> { ErrAmbiguous }
      [] c[1] = "GetPodLogs" -> { ErrStreamOpen }
      [] c[1] = "Convert" -> { ErrDecoding }
      [] c[1] = "GetNode" -> { ErrNodeNotFound }
      [] OTHER -> { }

\* C15: each stage is called at most once, the stages are called in the
\* order run, locate pod, open logs, decode, node lookup, a stage is called
\* only when every earlier one succeeded, and the error Scan returns has
\* the cause of the one failed stage, which is the last stage called.
C15_StagesInOrderFirstErrorWins ==
    \A i \in Procs :
        /\ \A op \in { "Create", "Wait", "GetPodByJob", "GetPodLogs", "Convert", "GetNode" } :
               NumCalls(i, op) <= 1
        /\ \A k, l \in StageCalls(i) :
               k < l =>
                   /\ StageRank(calls[i][k][1]) <= StageRank(calls[i][l][1])
                   /\ calls[i][k][1] = "Create" \/
                          StageRank(calls[i][k][1]) < StageRank(calls[i][l][1])
                   /\ Succeeded(calls[i][k])
        /\ \A k \in StageCalls(i) :
               ~Succeeded(calls[i][k]) =>
                   /\ err[i] # Nil
                   /\ err[i][Len(err[i])] \in CausesOf(calls[i][k])
        /\ (pc[i] = "done" /\ err[i] # Nil) =>
               \E k \in StageCalls(i) : ~Succeeded(calls[i][k])

C15_Witness ==
    \E i, j \in Procs :
        /\ pc[i] = "done"
        /\ Called(i, "GetPodLogs", "error")
        /\ err[i] = Wrap(LogsStage, NewError(ErrStreamOpen))
        /\ pc[j] = "done"
        /\ Len(calls[j]) = 8
        /\ err[j] = Nil

C17_RunOnceNoRetry ==
    /\ \A i \in Procs :
           kubeBenchJob[i] # NoJob =>
               /\ kubeBenchJob[i].completions = << 1 >>
               /\ kubeBenchJob[i].backoffLimit = << 0 >>
               /\ kubeBenchJob[i].restartPolicy = "Never"
    /\ \A u \in UUIDs :
           /\ stored[u].starts <= 1
           /\ stored[u].fails > 0 => jobs[u] = "failed"
           /\ jobs[u] \in { "active", "succeeded", "failed" } =>
                  (stored[u].spec.name = u /\ stored[u].starts = 1)

C17_Witness ==
    \E i \in Procs :
        /\ Called(i, "Wait", "failed")
        /\ jobs[kubeBenchJob[i].name] = "failed"
        /\ stored[kubeBenchJob[i].name] = [ spec |-> kubeBenchJob[i], starts |-> 1, fails |-> 1 ]

\* C18: an invocation issues a delete exactly when runner.Run returned
\* without error, at most once, as its last call, after the log stream was
\* closed, and for the namespace and name of the job it submitted.
C18_DeleteIffRunSucceeded ==
    \A i \in Procs :
        /\ NumCalls(i, "Delete") <= 1
        /\ NumCalls(i, "Delete") = 1 => Called(i, "Wait", "succeeded")
        /\ (pc[i] = "done" /\ Called(i, "Wait", "succeeded")) => NumCalls(i, "Delete") = 1
        /\ \A k \in Ops(i, "Delete") :
               /\ k = Len(calls[i])
               /\ pc[i] = "done"
               /\ calls[i][1] = << "Create", calls[i][k][2], "created" >>
               /\ calls[i][k][2] = kubeBenchJob[i].name
               /\ kubeBenchJob[i].namespace = NamespaceStarboard
               /\ logsReader[i] # "open"
               /\ Called(i, "GetPodLogs", "ok") => \E c \in Ops(i, "Close") : c < k

C18_Witness ==
    \E i, j \in Procs :
        /\ pc[i] = "done"
        /\ Called(i, "Close", "ok")
        /\ Called(i, "Delete", "ok")
        /\ pc[j] = "done"
        /\ Called(j, "Wait", "failed")
        /\ NumCalls(j, "Delete") = 0

\* the invocations whose job lives in the cluster under the name u
Owners(u) ==
    { i \in Procs :
        /\ kubeBenchJob[i].name = u
        /\ Called(i, "Create", "created") \/ Called(i, "Create", "partial")
        /\ ~Called(i, "Delete", "ok") }
\* invocation i reads or is about to delete the job it names
UsesJob(i) == pc[i] \in { "getPod", "getLogs", "convert", "getNode", "deferred" }

\* C19: a job in the cluster belongs to one invocation; an invocation that
\* reads pods or logs, or deletes, does so for its own job, and a delete
\* removes no job of another invocation.
C19_OnlyOwnJobTouched ==
    /\ \A u \in UUIDs :
           /\ jobs[u] # "absent" => Cardinality(Owners(u)) = 1
           /\ jobs[u] = "absent" => Owners(u) = { }
    /\ \A i \in Procs :
           /\ UsesJob(i) => Owners(kubeBenchJob[i].name) = { i }
           /\ kubeBenchPod[i] # NoPod => kubeBenchPod[i].owner = kubeBenchJob[i].name
           /\ \A k \in Ops(i, "GetPodByJob") \cup Ops(i, "GetPodLogs") \cup Ops(i, "Delete") :
                  calls[i][k][2] = kubeBenchJob[i].name

C19_Witness ==
    \E i, j \in Procs :
        /\ i # j
        /\ pc[i] = "done"
        /\ Called(i, "Delete", "ok")
        /\ UsesJob(j)
        /\ kubeBenchPod[j] # NoPod
        /\ jobs[kubeBenchJob[j].name] = "succeeded"
        /\ kubeBenchJob[i].name # kubeBenchJob[j].name

\* C20: Scan returns a report that is not empty together with an error
\* only when the node lookup failed; when the run, the locator or the
\* opening of the logs failed, the report is empty and the node is nil.
C20_ReportWithErrorOnlyOnNodeFailure ==
    \A i \in Procs :
        /\ (pc[i] = "done" /\ err[i] # Nil /\ report[i] # EmptyReport) =>
               Called(i, "GetNode", "error")
        /\ ( \/ Called(i, "Create", "rejected") \/ Called(i, "Create", "partial")
             \/ Called(i, "Wait", "failed") \/ Called(i, "Wait", "cancelled")
             \/ Called(i, "GetPodByJob", "none") \/ Called(i, "GetPodByJob", "many")
             \/ Called(i, "GetPodLogs", "error") ) =>
               (report[i] = EmptyReport /\ node[i] = NilNode /\ err[i] # Nil)

C20_Witness ==
    \E i, j \in Procs :
        /\ pc[i] = "done"
        /\ err[i] # Nil
        /\ report[i] # EmptyReport
        /\ pc[j] = "done"
        /\ Called(j, "GetPodLogs", "error")
        /\ report[j] = EmptyReport

====
